---------------------------- MODULE Spec2Model ----------------------------
(***************************************************************************)
(* A model of the glTF loader and scene graph of Cinder-MeshViewer:        *)
(*   - ModelGLTF::create and the per-object create functions               *)
(*     (src/src/cigltf.cpp),                                               *)
(*   - PrimitiveGLTF::draw with MaterialGLTF::predraw / postdraw and the   *)
(*     GL context's state stacks (src/src/cigltf.cpp),                     *)
(*   - the scene graph node of src/include/Node.h.                         *)
(*                                                                         *)
(* glTF indices are 0-based; TLA+ sequences are 1-based, so element i of   *)
(* a glTF array is seq[i + 1].  The index -1 means "absent".               *)
(***************************************************************************)
EXTENDS Integers, Sequences, FiniteSets, TLC

VARIABLES
    \* ---- loader (ModelGLTF::create) ----
    loadStatus,     \* "idle" | "null" | "returned" | "crashed"
    loadCall,       \* the arguments of the create call that produced the state
    parsed,         \* what the glTF parser produced (ret, err, model), if invoked
    parseCalls,     \* the parser entry points create invoked, in order
    errWrites,      \* the strings create stored through loadingError, in order
    modelRef,       \* <<>> for an empty reference, <<m>> for a ModelGLTF m
    buildLog,       \* objects created and collections indexed, in program order
    \* ---- drawing (PrimitiveGLTF::draw) ----
    glCullFace,     \* the context's GL_CULL_FACE bool-state stack
    glBlend,        \* the context's GL_BLEND bool-state stack
    glBlendFunc,    \* the context's blend-function stack
    lastDraw,       \* the last PrimitiveGLTF::draw call and the stacks around it
    \* ---- scene graph (Node) ----
    mChildren,      \* node -> its children list (strong references)
    lastAdd,        \* the last call that adds children, and what its addChild calls did
    lastOp,         \* the last setVisible / setParent call and its arguments
    mIsVisible,     \* node -> its visibility flag
    updated,        \* the objects whose update() the treeUpdate closing create called
    mParent,        \* node -> the target of its weak parent reference (0: none)
    alive,          \* the nodes that have not been destroyed
    held,           \* the nodes the application holds a NodeRef to
    \* ---- a NodeRectangle and its mouse handlers ----
    rect,           \* the members of one NodeRectangle
    lastMouse       \* the last mouse handler call: its result and callbacks

loadVars  == <<loadStatus, loadCall, parsed, parseCalls, errWrites, modelRef, buildLog>>
drawVars  == <<glCullFace, glBlend, glBlendFunc, lastDraw>>
graphVars == <<mChildren, lastAdd, lastOp, mIsVisible, updated,
               mParent, alive, held>>
rectVars  == <<rect, lastMouse>>
vars == <<loadVars, drawVars, graphVars, rectVars>>

---------------------------------------------------------------------------
(* Bounds of the model. *)

\* The largest number of elements in one array of a parsed glTF model.
MaxItems == 2

\* The deepest a GL state stack is let grow before drawing stops.
MaxStackDepth == 3

\* The number of scene graph nodes.
MaxNodes == 2

\* The longest list of child indices a glTF node or scene carries.
MaxRefs == 2

\* The largest screen coordinate of a mouse event and of a node position.
MaxCoord == 1

---------------------------------------------------------------------------
(* Sequence helpers. *)

InRange(seq, i) == i >= 0 /\ i < Len(seq)

---------------------------------------------------------------------------
(* The parsed glTF model (tinygltf::Model) that ModelGLTF::create consumes. *)

\* The arrays of tinygltf::Model that create wraps, in the order it wraps them.
KindSet == {"buffers", "bufferViews", "accessors", "images", "samplers",
            "textures", "materials", "meshes", "skins", "cameras", "nodes",
            "scenes", "animations"}

AlphaModes == <<"OPAQUE", "MASK", "BLEND">>

\* GLenum values of the texture filters.
GL_NEAREST == 9728

GL_LINEAR == 9729

\* std::string as the sequence of its characters.
PngUri == <<"a", ".", "p", "n", "g">>

DdsUri == <<"a", ".", "d", "d", "s">>

UpperDdsUri == <<"a", ".", "D", "D", "S">>

DdsPngUri == <<"a", ".", "d", "d", "s", ".", "p", "n", "g">>

\* The uri of image k of a file: the spellings ImageGLTF::create tells apart.
ImageUri(k, linked) ==
    IF k % 3 = 1 THEN PngUri
    ELSE IF k % 3 = 2 THEN (IF linked THEN DdsUri ELSE UpperDdsUri)
    ELSE (IF linked THEN DdsPngUri ELSE PngUri)

\* A parsed model with g buffers/bufferViews/accessors, t images/samplers/
\* textures/materials, n meshes/skins/cameras/nodes/animations and s
\* scenes; d is the file's default scene (-1: none declared).  Every element
\* carries a name that tells it from every other element.  An image carries
\* its decoded bytes (empty when the parser decoded none) and its uri; a
\* sampler its filters (-1: the file declares none).  When linked, the
\* optional references (texture.sampler, material textures, primitive.material
\* and .indices, node.camera/.mesh/.skin, node.children, scene.nodes) are set;
\* otherwise they are absent.  Required references are always in range.
GltfModel(g, t, n, s, d, linked) ==
    [ buffers     |-> [k \in 1..g |-> [name |-> <<"buffer", k - 1>>]],
      bufferViews |-> [k \in 1..g |-> [name |-> <<"bufferView", k - 1>>,
                                       buffer |-> k - 1]],
      accessors   |-> [k \in 1..g |-> [name |-> <<"accessor", k - 1>>,
                                       bufferView |-> k - 1]],
      images      |-> [k \in 1..t |->
                         [name |-> <<"image", k - 1>>,
                          image |-> IF ~linked /\ k % 2 = 1 THEN <<255>> ELSE <<>>,
                          uri |-> ImageUri(k, linked)]],
      samplers    |-> [k \in 1..t |->
                         [name |-> <<"sampler", k - 1>>,
                          minFilter |-> IF k % 2 = 1 THEN -1 ELSE GL_NEAREST,
                          magFilter |-> IF linked THEN GL_NEAREST ELSE -1]],
      textures    |-> [k \in 1..t |-> [name |-> <<"texture", k - 1>>,
                                       source |-> k - 1,
                                       sampler |-> IF linked THEN k - 1 ELSE -1]],
      materials   |-> [k \in 1..t |->
                         [name |-> <<"material", k - 1>>,
                          doubleSided |-> (k % 2 = 0),
                          alphaMode |-> AlphaModes[((k - 1) % 3) + 1],
                          baseColorTexture |-> IF linked THEN k - 1 ELSE -1]],
      meshes      |-> [k \in 1..n |->
                         [name |-> <<"mesh", k - 1>>,
                          primitives |->
                            [j \in 1..(IF linked THEN k ELSE 1) |->
                               [material |-> IF linked /\ k <= t THEN k - 1 ELSE -1,
                                indices |-> IF linked /\ k <= g THEN k - 1 ELSE -1,
                                attributes |-> IF g > 0 THEN <<0>> ELSE <<>>]]]],
      skins       |-> [k \in 1..n |-> [name |-> <<"skin", k - 1>>]],
      cameras     |-> [k \in 1..n |-> [name |-> <<"camera", k - 1>>]],
      nodes       |-> [k \in 1..n |->
                         [name |-> <<"node", k - 1>>,
                          camera |-> IF linked THEN k - 1 ELSE -1,
                          mesh |-> IF linked THEN k - 1 ELSE -1,
                          skin |-> IF linked THEN k - 1 ELSE -1,
                          children |-> IF linked /\ k < n THEN <<k>> ELSE <<>>]],
      scenes      |-> [k \in 1..s |->
                         [name |-> <<"scene", k - 1>>,
                          nodes |-> IF linked /\ n > 0
                                    THEN <<(k - 1) % n, 0>> ELSE <<>>]],
      animations  |-> [k \in 1..n |-> [name |-> <<"animation", k - 1>>]],
      defaultScene |-> d ]

\* The parsed models the loader is run on.
Models ==
    { GltfModel(g, t, n, s, d, linked) :
        g \in 0..MaxItems, t \in 0..MaxItems, n \in 0..MaxItems,
        s \in 0..MaxItems, d \in -1..MaxItems, linked \in BOOLEAN }

EmptyGltf == GltfModel(0, 0, 0, 0, -1, FALSE)

\* const fs::path& meshPath: whether the file exists, and its extension.
Paths == [exists : BOOLEAN, ext : {".glb", ".gltf"}]

\* const Option& option.
Options == [loadAnimationOnly : BOOLEAN, loadTextures : BOOLEAN]

\* The error strings the parser reports ("" when there was no error).
ErrStrings == {"", "parse error"}

\* What tinygltf's LoadBinaryFromFile / LoadASCIIFromFile can hand back for a
\* path: its return value, its error string and the model it filled in.
ParserOutcomes(path) ==
    IF ~path.exists
    THEN {[ret |-> FALSE, err |-> "file not found", model |-> EmptyGltf]}
    ELSE {[ret |-> FALSE, err |-> e, model |-> EmptyGltf] : e \in ErrStrings}
         \cup {[ret |-> TRUE, err |-> e, model |-> mdl] :
                 e \in ErrStrings, mdl \in Models}

---------------------------------------------------------------------------
(* Node::addChild and friends.  Node.cpp is not among the source files; the *)
(* operators follow the documentation of their declarations in Node.h.      *)

\* "returns wether this node has a specific child"
HasChild(children, node) == \E k \in 1..Len(children) : children[k] = node

\* Faulty variant, for comparison: addChild appends without asking hasChild.
AddChildPushBack(children, node) == Append(children, node)

\* "adds a child to this node if it wasn't already a child of this node"
AddChild(children, node) ==
    IF HasChild(children, node) THEN children ELSE Append(children, node)

\* "removes a specific child from this node"
RemoveChild(children, node) == SelectSeq(children, LAMBDA c : c # node)

---------------------------------------------------------------------------
(* The per-object create functions.  While ModelGLTF::create runs, st holds *)
(* the ModelGLTF under construction: st.coll[kind] is the wrapper collection *)
(* of that kind, st.fallback the fallback material (<<>> while still null), *)
(* st.log the objects created and the collections indexed so far.  Each     *)
(* create function returns the wrapper w it built and the events log it     *)
(* caused.                                                                  *)

Created(kind) ==
    [ev |-> "create", by |-> kind, into |-> "none", index |-> -1, size |-> 0]

\* modelGLTF->into[index] read by the create function of `by`; size is the
\* length of the indexed collection at that moment.
Indexed(by, into, index, st) ==
    [ev |-> "index", by |-> by, into |-> into, index |-> index,
     size |-> Len(st.coll[into])]

IndexedIf(cond, by, into, index, st) ==
    IF cond THEN <<Indexed(by, into, index, st)>> ELSE <<>>

BufferGLTFCreate(st, property) ==
    [w |-> [property |-> property], log |-> <<Created("buffers")>>]

BufferViewGLTFCreate(st, property) ==
    [w |-> [property |-> property, buffer |-> property.buffer],
     log |-> <<Created("bufferViews"), Indexed("bufferViews", "buffers", property.buffer, st)>>]

AccessorGLTFCreate(st, property) ==
    [w |-> [property |-> property, bufferView |-> property.bufferView],
     log |-> <<Created("accessors"), Indexed("accessors", "bufferViews", property.bufferView, st)>>]

\* str.find(sub) != string::npos
Contains(str, sub) ==
    \E i \in 0..(Len(str) - Len(sub)) : SubSeq(str, i + 1, i + Len(sub)) = sub

\* Under CINDER_LESS no surface is made.  Otherwise decoded bytes give a
\* surface (Surface::create), a uri with ".dds" or ".DDS" in it a compressed
\* surface (DataSourcePath::create), any other uri the surface am::surface
\* loads, null when st.env.surface is FALSE.
ImageGLTFCreate(st, property) ==
    LET isDds == \/ Contains(property.uri, <<".", "d", "d", "s">>)
                 \/ Contains(property.uri, <<".", "D", "D", "S">>)
    IN [w |-> [property |-> property,
               surface |-> /\ ~st.env.cinderLess
                           /\ \/ property.image # <<>>
                              \/ ~isDds /\ st.env.surface,
               compressedSurface |-> /\ ~st.env.cinderLess
                                     /\ property.image = <<>> /\ isDds],
        log |-> <<Created("images")>>]

\* A filter the file does not declare (-1) becomes GL_LINEAR in the wrapper's
\* copy of the property, except under CINDER_LESS.
SamplerFilter(st, filter) ==
    IF ~st.env.cinderLess /\ filter = -1 THEN GL_LINEAR ELSE filter

SamplerGLTFCreate(st, property) ==
    [w |-> [property |-> [property EXCEPT
                            !.minFilter = SamplerFilter(st, property.minFilter),
                            !.magFilter = SamplerFilter(st, property.magFilter)]],
     log |-> <<Created("samplers")>>]

\* ciSampler: the index of the sampler whose ciSampler the texture shares, -1
\* for null.  Under CINDER_LESS only the image is looked up.  Otherwise the
\* texture is made from the image's surface or compressed surface
\* (gl::Texture2d::create / createFromDds, null when st.env.texture is FALSE),
\* and create returns early when there is neither or no texture came back.
TextureGLTFCreate(st, property) ==
    LET image == st.coll["images"][property.source + 1]
        ciTexture == /\ ~st.env.cinderLess
                     /\ image.surface \/ image.compressedSurface
                     /\ st.env.texture
        readsSampler == ciTexture /\ property.sampler # -1
    IN [w |-> [property |-> property, imageSource |-> property.source,
               ciTexture |-> ciTexture,
               ciSampler |-> IF readsSampler THEN property.sampler ELSE -1],
        log |-> <<Created("textures"),
                  Indexed("textures", "images", property.source, st)>>
                \o IndexedIf(readsSampler, "textures", "samplers",
                             property.sampler, st)]

\* enum AlphaMode from the property's string; anything but BLEND and MASK
\* leaves the default, ALPHA_OPAQUE.
AlphaModeOf(property) ==
    IF property.alphaMode = "BLEND" THEN "ALPHA_BLEND"
    ELSE IF property.alphaMode = "MASK" THEN "ALPHA_MASK"
    ELSE "ALPHA_OPAQUE"

MaterialGLTFCreate(st, property) ==
    [w |-> [property |-> property,
            doubleSided |-> property.doubleSided,
            alphaMode |-> AlphaModeOf(property),
            baseColorTexture |-> property.baseColorTexture],
     log |-> <<Created("materials")>>
             \o IndexedIf(property.baseColorTexture >= 0, "materials", "textures",
                          property.baseColorTexture, st)]

\* tinygltf::Material mtrl; mtrl.name = "default"; (unlit extension)
FallbackProperty ==
    [name |-> <<"material", "default">>, doubleSided |-> FALSE,
     alphaMode |-> "OPAQUE", baseColorTexture |-> -1]

\* ref->material: <<"fallback">> / <<"null">> / <<"materials", i>>.
PrimitiveGLTFCreate(st, property, option) ==
    [w |-> [property |-> property,
            material |->
              IF property.material = -1
              THEN (IF st.fallback = <<>> THEN <<"null">> ELSE <<"fallback">>)
              ELSE IF option.loadTextures
                   THEN <<"materials", property.material>>
                   ELSE <<"null">>,
            indices |-> property.indices],
     log |-> <<Created("primitives")>>
             \o IndexedIf(property.material # -1 /\ option.loadTextures,
                          "primitives", "materials", property.material, st)
             \o IndexedIf(property.indices >= 0, "primitives", "accessors",
                          property.indices, st)
             \o [k \in 1..Len(property.attributes) |->
                   Indexed("primitives", "accessors", property.attributes[k], st)]]

RECURSIVE MeshPrimitives(_, _, _, _)
\* for (auto& item : property.primitives) ref->primitives.emplace_back(...)
MeshPrimitives(st, items, k, option) ==
    IF k > Len(items) THEN [w |-> <<>>, log |-> <<>>]
    ELSE LET r    == PrimitiveGLTFCreate(st, items[k], option)
             rest == MeshPrimitives(st, items, k + 1, option)
         IN [w |-> <<r.w>> \o rest.w, log |-> r.log \o rest.log]

MeshGLTFCreate(st, property, option) ==
    LET prims == MeshPrimitives(st, property.primitives, 1, option)
    IN [w |-> [property |-> property, primitives |-> prims.w],
        log |-> <<Created("meshes")>> \o prims.log]

SkinGLTFCreate(st, property) ==
    [w |-> [property |-> property], log |-> <<Created("skins")>>]

CameraGLTFCreate(st, property) ==
    [w |-> [property |-> property], log |-> <<Created("cameras")>>]

NodeGLTFCreate(st, property) ==
    [w |-> [property |-> property, camera |-> property.camera,
            mesh |-> property.mesh, skin |-> property.skin, children |-> <<>>],
     log |-> <<Created("nodes")>>
             \o IndexedIf(property.camera # -1, "nodes", "cameras", property.camera, st)
             \o IndexedIf(property.mesh # -1, "nodes", "meshes", property.mesh, st)
             \o IndexedIf(property.skin # -1, "nodes", "skins", property.skin, st)]

RECURSIVE AddChildren(_, _, _)
\* for (auto& item : list) addChild(modelGLTF->nodes[item]); a child is named
\* by its index in modelGLTF->nodes.
AddChildren(children, list, k) ==
    IF k > Len(list) THEN children
    ELSE AddChildren(AddChild(children, list[k]), list, k + 1)

\* The children of the scene SceneGLTF::create builds from property.nodes.
SceneGLTFChildren(nodes) == AddChildren(<<>>, nodes, 1)

SceneGLTFCreate(st, property) ==
    [w |-> [property |-> property, children |-> SceneGLTFChildren(property.nodes)],
     log |-> <<Created("scenes")>>
             \o [k \in 1..Len(property.nodes) |->
                   Indexed("scenes", "nodes", property.nodes[k], st)]]

AnimationGLTFCreate(st, property) ==
    [w |-> [property |-> property], log |-> <<Created("animations")>>]

\* XGLTF::create(ref, item) for the array `kind` of the parsed model.
CreateObject(kind, st, property, option) ==
    CASE kind = "buffers"     -> BufferGLTFCreate(st, property)
      [] kind = "bufferViews" -> BufferViewGLTFCreate(st, property)
      [] kind = "accessors"   -> AccessorGLTFCreate(st, property)
      [] kind = "images"      -> ImageGLTFCreate(st, property)
      [] kind = "samplers"    -> SamplerGLTFCreate(st, property)
      [] kind = "textures"    -> TextureGLTFCreate(st, property)
      [] kind = "materials"   -> MaterialGLTFCreate(st, property)
      [] kind = "meshes"      -> MeshGLTFCreate(st, property, option)
      [] kind = "skins"       -> SkinGLTFCreate(st, property)
      [] kind = "cameras"     -> CameraGLTFCreate(st, property)
      [] kind = "nodes"       -> NodeGLTFCreate(st, property)
      [] kind = "scenes"      -> SceneGLTFCreate(st, property)
      [] kind = "animations"  -> AnimationGLTFCreate(st, property)

---------------------------------------------------------------------------
(* ModelGLTF::create. *)

\* Faulty variant, for comparison: the missing-file check is gone.
MissingFileUnchecked(path) == FALSE

\* if (!fs::exists(meshPath)) ... return {};
MissingFile(path) == ~path.exists

\* The parser entry points create calls for a path: LoadBinaryFromFile for
\* the extension ".glb", LoadASCIIFromFile for every other one; one call.
LoaderCalls(path) ==
    IF path.ext = ".glb" THEN <<"LoadBinaryFromFile">> ELSE <<"LoadASCIIFromFile">>

\* Faulty variant, for comparison: the error string is stored only when there is one.
StoreLoadingErrorIfAny(le, err) == IF le /\ err # "" THEN <<err>> ELSE <<>>

\* if (loadingError) *loadingError = err;  (le: loadingError is not null)
StoreLoadingError(le, err) == IF le THEN <<err>> ELSE <<>>

\* Faulty variant, for comparison: new wrappers go to the front of the collection.
EmplaceFront(seq, x) == <<x>> \o seq

\* ref->xs.emplace_back(x)
EmplaceBack(seq, x) == Append(seq, x)

\* What the build and the graphics library contribute to a call: whether the
\* code was compiled with CINDER_LESS, whether am::surface loads the image
\* files, whether gl::Texture2d::create / createFromDds hand back a texture.
CinderLess == [cinderLess |-> TRUE, surface |-> FALSE, texture |-> FALSE]

\* The Cinder build with am::surface and gl::Texture2d::create failing.
CinderBare == [cinderLess |-> FALSE, surface |-> FALSE, texture |-> FALSE]

Environments ==
    {CinderLess} \cup [cinderLess : {FALSE}, surface : BOOLEAN, texture : BOOLEAN]

\* The environments to tell apart for a call: they differ in their effect
\* only where images, samplers and textures are created, and the library's
\* results only where there is an image.
EnvironmentsOf(pr, option) ==
    IF pr.ret /\ ~option.loadAnimationOnly /\ option.loadTextures
    THEN IF pr.model.images # <<>> THEN Environments
         ELSE IF pr.model.samplers # <<>> THEN {CinderLess, CinderBare}
         ELSE {CinderLess}
    ELSE {CinderLess}

\* The ModelGLTF right after make_shared: every collection empty, no fallback
\* material.
EmptyBuild ==
    [coll |-> [k \in KindSet |-> <<>>], fallback |-> <<>>, log |-> <<>>,
     env |-> CinderLess]

RECURSIVE CreateAll(_, _, _, _, _)
\* for (auto& item : model.kind) ref->kind.emplace_back(KindGLTF::create(ref, item));
CreateAll(kind, items, k, st, option) ==
    IF k > Len(items) THEN st
    ELSE LET r == CreateObject(kind, st, items[k], option)
         IN CreateAll(kind, items, k + 1,
                      [st EXCEPT !.coll[kind] = EmplaceBack(@, r.w),
                                 !.log = @ \o r.log],
                      option)

\* ref->fallbackMaterial = MaterialGLTF::create(ref, mtrl);
CreateFallback(st) ==
    LET r == MaterialGLTFCreate(st, FallbackProperty)
    IN [st EXCEPT !.fallback = <<r.w>>,
                  !.log = @ \o <<Created("fallbackMaterial")>> \o Tail(r.log)]

\* Faulty variant, for comparison: the nodes are built before the meshes, skins and cameras.
BuildOrderNodesEarly(option) ==
    IF option.loadAnimationOnly THEN <<>>
    ELSE <<"fallbackMaterial", "buffers", "bufferViews", "accessors">>
         \o (IF option.loadTextures
             THEN <<"images", "samplers", "textures", "materials">> ELSE <<>>)
         \o <<"nodes", "meshes", "skins", "cameras", "scenes">>

\* The order in which the block `if (!option.loadAnimationOnly)` builds the
\* fallback material and the collections.
BuildOrder(option) ==
    IF option.loadAnimationOnly THEN <<>>
    ELSE <<"fallbackMaterial", "buffers", "bufferViews", "accessors">>
         \o (IF option.loadTextures
             THEN <<"images", "samplers", "textures", "materials">> ELSE <<>>)
         \o <<"meshes", "skins", "cameras", "nodes", "scenes">>

RECURSIVE RunStages(_, _, _, _, _)
RunStages(stages, k, st, gltf, option) ==
    IF k > Len(stages) THEN st
    ELSE RunStages(stages, k + 1,
                   IF stages[k] = "fallbackMaterial" THEN CreateFallback(st)
                   ELSE CreateAll(stages[k], gltf[stages[k]], 1, st, option),
                   gltf, option)

\* if (model.defaultScene == -1) model.defaultScene = 0;
SceneIndex(gltf) == IF gltf.defaultScene = -1 THEN 0 ELSE gltf.defaultScene

\* What ref->scenes[model.defaultScene] can do: a read inside the vector is
\* defined; a read outside it is undefined behaviour.  It ends the process at
\* the read ("crash"), or yields a null reference ("null"), or yields a
\* reference to something that is none of the model's scenes, which create
\* hands to addChild and, after the animations, to treeUpdate: there the
\* process ends ("dangling-crash") or the call goes through ("dangling").
SceneReadOutcomes(gltf, option) ==
    IF option.loadAnimationOnly \/ InRange(gltf.scenes, SceneIndex(gltf))
    THEN {"defined"} ELSE {"crash", "null", "dangling-crash", "dangling"}

\* A null reference as an entry of mChildren.
NullRef == -1

\* A non-null reference to something that is none of the model's scenes.
Dangling == -2

RECURSIVE NodeTreeUpdated(_, _)
\* treeUpdate on node i of the model under construction: "calls the update()
\* function of this node and all its decendants" (Node.h 120).
NodeTreeUpdated(nodes, i) ==
    {<<"nodes", i>>}
    \cup UNION {NodeTreeUpdated(nodes, nodes[i + 1].children[k]) :
                  k \in 1..Len(nodes[i + 1].children)}

\* ref->treeUpdate() at the end of create: the objects whose update() runs,
\* the model node first, then what hangs below its children (the scenes in
\* mChildren; a null child has nothing to update, a dangling one no known
\* descendants).
ModelTreeUpdated(coll, children) ==
    {<<"ModelGLTF", 0>>}
    \cup UNION { IF InRange(coll["scenes"], children[c])
                 THEN {<<"scenes", children[c]>>}
                      \cup UNION {NodeTreeUpdated(coll["nodes"], n) :
                                    n \in {coll["scenes"][children[c] + 1].children[k] :
                                             k \in 1..Len(coll["scenes"][children[c] + 1].children)}}
                 ELSE IF children[c] = NullRef THEN {}
                 ELSE {<<"scenes", children[c]>>}
                 : c \in 1..Len(children) }

\* The whole of ModelGLTF::create: path, option and le (loadingError != null)
\* are its arguments, pr is what the parser hands back if it is called, ub
\* is the outcome of the scene read, env is the build and what the graphics
\* library does.  Returns the call's effects: status, the parser calls made,
\* the stores through loadingError, the reference returned, the build log
\* and the objects the closing treeUpdate updated.
ModelGLTFCreate(path, option, le, pr, ub, env) ==
    IF MissingFile(path)
    THEN [status |-> "null", parseCalls |-> <<>>, errWrites |-> <<>>,
          ref |-> <<>>, log |-> <<>>, updated |-> {}]
    ELSE IF ~pr.ret
    THEN [status |-> "null", parseCalls |-> LoaderCalls(path),
          errWrites |-> StoreLoadingError(le, pr.err), ref |-> <<>>, log |-> <<>>,
          updated |-> {}]
    ELSE
      LET gltf   == pr.model
          built  == RunStages(BuildOrder(option), 1, [EmptyBuild EXCEPT !.env = env],
                              gltf, option)
          idx    == SceneIndex(gltf)
          inside == InRange(built.coll["scenes"], idx)
          st1    == IF option.loadAnimationOnly THEN built
                    ELSE [built EXCEPT !.log =
                            @ \o <<Indexed("ModelGLTF", "scenes", idx, built)>>]
          st2    == CreateAll("animations", gltf.animations, 1, st1, option)
          outside == ~option.loadAnimationOnly /\ ~inside
          current == IF option.loadAnimationOnly \/ (outside /\ ub = "null") THEN <<>>
                     ELSE IF inside THEN <<idx>> ELSE <<Dangling>>
          children == IF option.loadAnimationOnly THEN <<>>
                      ELSE AddChildren(<<>>, IF current = <<>> THEN <<NullRef>>
                                             ELSE current, 1)
      IN IF outside /\ ub = "crash"
         THEN [status |-> "crashed", parseCalls |-> LoaderCalls(path),
               errWrites |-> StoreLoadingError(le, pr.err), ref |-> <<>>,
               log |-> st1.log, updated |-> {}]
         ELSE IF outside /\ ub = "dangling-crash"
         THEN [status |-> "crashed", parseCalls |-> LoaderCalls(path),
               errWrites |-> StoreLoadingError(le, pr.err), ref |-> <<>>,
               log |-> st2.log, updated |-> {<<"ModelGLTF", 0>>}]
         ELSE [status |-> "returned", parseCalls |-> LoaderCalls(path),
               errWrites |-> StoreLoadingError(le, pr.err),
               ref |-> <<[option |-> option, property |-> gltf,
                          coll |-> st2.coll,
                          fallbackMaterial |-> st2.fallback,
                          currentScene |-> current,
                          mChildren |-> children]>>,
               log |-> st2.log,
               updated |-> ModelTreeUpdated(st2.coll, children)]

---------------------------------------------------------------------------
(* The loader as a state machine: a caller invokes ModelGLTF::create, looks *)
(* at what came back and drops it again.                                    *)

NoCall == [path |-> [exists |-> FALSE, ext |-> ".gltf"],
           option |-> [loadAnimationOnly |-> FALSE, loadTextures |-> FALSE],
           le |-> FALSE, env |-> CinderLess]

InitLoad ==
    /\ loadStatus = "idle"
    /\ loadCall = NoCall
    /\ parsed = <<>>
    /\ parseCalls = <<>>
    /\ errWrites = <<>>
    /\ modelRef = <<>>
    /\ buildLog = <<>>

\* One call of ModelGLTF::create(meshPath, option, loadingError); `updated`
\* receives the objects its closing ref->treeUpdate() updated.
Create ==
    /\ loadStatus = "idle"
    /\ \E path \in Paths, option \in Options, le \in BOOLEAN :
         \E pr \in ParserOutcomes(path) :
           \E ub \in SceneReadOutcomes(pr.model, option),
              env \in EnvironmentsOf(pr, option) :
             \E r \in {ModelGLTFCreate(path, option, le, pr, ub, env)} :
                /\ loadStatus' = r.status
                /\ loadCall' = [path |-> path, option |-> option, le |-> le,
                                env |-> env]
                /\ parsed' = IF r.parseCalls = <<>> THEN <<>> ELSE <<pr>>
                /\ parseCalls' = r.parseCalls
                /\ errWrites' = r.errWrites
                /\ modelRef' = r.ref
                /\ buildLog' = r.log
                /\ updated' = r.updated
    /\ UNCHANGED <<mChildren, lastAdd, lastOp, mIsVisible,
                   mParent, alive, held>>
    /\ UNCHANGED <<drawVars, rectVars>>

\* The caller lets go of the ModelGLTFRef it got (empty or not); the objects
\* of the model go with it.
Release ==
    /\ loadStatus \in {"null", "returned"}
    /\ loadStatus' = "idle"
    /\ loadCall' = NoCall
    /\ parsed' = <<>>
    /\ parseCalls' = <<>>
    /\ errWrites' = <<>>
    /\ modelRef' = <<>>
    /\ buildLog' = <<>>
    /\ updated' = {}
    /\ UNCHANGED <<mChildren, lastAdd, lastOp, mIsVisible,
                   mParent, alive, held>>
    /\ UNCHANGED <<drawVars, rectVars>>

---------------------------------------------------------------------------
(* Drawing: PrimitiveGLTF::draw, MaterialGLTF::predraw and ::postdraw, and  *)
(* the state stacks of the GL context (gl::Context::pushBoolState,          *)
(* popBoolState, pushBlendFuncSeparate, popBlendFuncSeparate).  gl is the   *)
(* record [cull, blend, blendFunc] of the three stacks.                     *)

\* enum DrawOrder
DrawOrders == {"DRAW_SOLID", "DRAW_SHADOW", "DRAW_TRANSPARENCY",
               "DRAW_POST_PROCESSING", "DRAW_GUI"}

Push(stack, v) == Append(stack, v)

Pop(stack) == IF stack = <<>> THEN stack ELSE SubSeq(stack, 1, Len(stack) - 1)

SrcAlphaBlend == <<"GL_SRC_ALPHA", "GL_ONE_MINUS_SRC_ALPHA",
                   "GL_SRC_ALPHA", "GL_ONE_MINUS_SRC_ALPHA">>

\* bool MaterialGLTF::predraw(DrawOrder order): its return value and the
\* stacks it leaves.  Under CINDER_LESS it is `return true;`.
MaterialGLTFPredraw(cinderLess, material, order, gl) ==
    LET g1 == IF material.doubleSided
              THEN [gl EXCEPT !.cull = Push(@, FALSE)] ELSE gl
    IN IF cinderLess THEN [ret |-> TRUE, gl |-> gl]
       ELSE IF material.alphaMode = "ALPHA_OPAQUE"
       THEN IF order = "DRAW_TRANSPARENCY"
            THEN [ret |-> FALSE, gl |-> g1]
            ELSE [ret |-> TRUE, gl |-> [g1 EXCEPT !.blend = Push(@, FALSE)]]
       ELSE \* ALPHA_MASK and ALPHA_BLEND push the same state
            IF order # "DRAW_TRANSPARENCY"
            THEN [ret |-> FALSE, gl |-> g1]
            ELSE [ret |-> TRUE,
                  gl |-> [g1 EXCEPT !.blend = Push(@, TRUE),
                                    !.blendFunc = Push(@, SrcAlphaBlend)]]

\* void MaterialGLTF::postdraw(); empty under CINDER_LESS.
MaterialGLTFPostdraw(cinderLess, material, gl) ==
    LET g1 == IF material.doubleSided THEN [gl EXCEPT !.cull = Pop(@)] ELSE gl
    IN IF cinderLess THEN gl
       ELSE IF material.alphaMode = "ALPHA_OPAQUE"
       THEN [g1 EXCEPT !.blend = Pop(@)]
       ELSE [g1 EXCEPT !.blend = Pop(@), !.blendFunc = Pop(@)]

\* void PrimitiveGLTF::draw(DrawOrder order); material is <<>> for a null
\* material, <<m>> otherwise.  drew: gl::draw(ciVboMesh) was reached, which
\* the CINDER_LESS build leaves out; post: postdraw was called.
PrimitiveGLTFDraw(cinderLess, material, order, gl) ==
    IF material = <<>> THEN [drew |-> ~cinderLess, post |-> FALSE, gl |-> gl]
    ELSE LET pre == MaterialGLTFPredraw(cinderLess, material[1], order, gl)
         IN IF ~pre.ret THEN [drew |-> FALSE, post |-> FALSE, gl |-> pre.gl]
            ELSE [drew |-> ~cinderLess, post |-> TRUE,
                  gl |-> MaterialGLTFPostdraw(cinderLess, material[1], pre.gl)]

\* tinygltf::Material values a drawn primitive's material is created from.
MaterialProps ==
    [name : {<<"material", 0>>}, doubleSided : BOOLEAN,
     alphaMode : {"OPAQUE", "MASK", "BLEND"}, baseColorTexture : {-1}]

\* PrimitiveGLTF::material: null, or a material MaterialGLTF::create built.
DrawMaterials ==
    {<<>>} \cup {<<MaterialGLTFCreate(EmptyBuild, p).w>> : p \in MaterialProps}

Depths(gl) == <<Len(gl.cull), Len(gl.blend), Len(gl.blendFunc)>>

GlStacks == [cull |-> glCullFace, blend |-> glBlend, blendFunc |-> glBlendFunc]

InitDraw ==
    /\ glCullFace = <<>>
    /\ glBlend = <<>>
    /\ glBlendFunc = <<>>
    /\ lastDraw = [called |-> FALSE, cinderLess |-> TRUE, material |-> <<>>,
                   order |-> "DRAW_SOLID", drew |-> FALSE, post |-> FALSE,
                   before |-> <<0, 0, 0>>, after |-> <<0, 0, 0>>]

\* One call of PrimitiveGLTF::draw(order) on a primitive with the given
\* material, in the CINDER_LESS build or the Cinder build.
PrimitiveDraw ==
    /\ Len(glCullFace) < MaxStackDepth
    /\ Len(glBlend) < MaxStackDepth
    /\ Len(glBlendFunc) < MaxStackDepth
    /\ \E cinderLess \in BOOLEAN, material \in DrawMaterials, order \in DrawOrders :
         LET r == PrimitiveGLTFDraw(cinderLess, material, order, GlStacks)
         IN /\ glCullFace' = r.gl.cull
            /\ glBlend' = r.gl.blend
            /\ glBlendFunc' = r.gl.blendFunc
            /\ lastDraw' = [called |-> TRUE, cinderLess |-> cinderLess,
                            material |-> material, order |-> order,
                            drew |-> r.drew, post |-> r.post,
                            before |-> Depths(GlStacks), after |-> Depths(r.gl)]
    /\ UNCHANGED <<loadVars, graphVars, rectVars>>

---------------------------------------------------------------------------
(* The scene graph: class Node of src/include/Node.h.  Nodes are named      *)
(* 1..MaxNodes; 0 stands for a null NodeRef.  A node lives as long as a     *)
(* strong reference (a NodeRef the application holds, or an entry of a      *)
(* living node's mChildren) points to it.                                   *)

NodeIds == 1..MaxNodes

NullNode == 0

\* Faulty variant, for comparison: the parent reference is a strong one (a NodeRef).
NodeStrongRef(node) == [node |-> node, weak |-> FALSE]

\* typedef std::weak_ptr<class Node> NodeWeakRef; NodeWeakRef(node)
NodeWeakRef(node) == [node |-> node, weak |-> TRUE]

\* void setParent(NodeRef node) { mParent = NodeWeakRef(node); }
SetParent(parents, n, node) == [parents EXCEPT ![n] = NodeWeakRef(node)]

\* NodeRef getParent() const { return mParent.lock(); }
GetParent(parents, living, n) ==
    IF parents[n].node \in living THEN parents[n].node ELSE NullNode

\* virtual void setVisible(bool visible = true) { mIsVisible = visible; }
SetVisible(visible, n, v) == [visible EXCEPT ![n] = v]

\* Whether a strong reference points to n: one the application holds, an
\* entry of a living node's mChildren, or a living node's parent reference
\* if that reference were a strong one.
HasOwner(n, living, handles, children, parents) ==
    \/ n \in handles
    \/ \E q \in living : \/ HasChild(children[q], n)
                         \/ ~parents[q].weak /\ parents[q].node = n

RECURSIVE Sweep(_, _, _, _)
\* shared_ptr reference counting: the nodes left alive once every node
\* without an owner (and, with it, its children list) has been destroyed.
Sweep(living, handles, children, parents) ==
    LET orphans == {n \in living : ~HasOwner(n, living, handles, children, parents)}
    IN IF orphans = {} THEN living
       ELSE Sweep(living \ orphans, handles, children, parents)

\* void NodeGLTF::setup(): the node's children after
\* for (auto& child : property.children) addChild(modelGLTF->nodes[child]);
\* modelGLTF->nodes[i] is node i + 1.
NodeGLTFSetup(children, propertyChildren) ==
    AddChildren(children, [k \in 1..Len(propertyChildren) |-> propertyChildren[k] + 1], 1)

\* The lists of child indices a glTF node or scene can carry (property.children,
\* property.nodes): up to MaxRefs indices into modelGLTF->nodes, repeats allowed.
ChildIndexLists ==
    UNION {[1..len -> 0..(MaxNodes - 1)] : len \in 0..MaxRefs}

\* by: the call that added children last ("none" after any other call);
\* result: "present" when one of its addChild calls named a node that was
\* already a child, "added" when every one added its node, "none" when it
\* made no addChild call.
NoAdd == [by |-> "none", result |-> "none"]

NoOp == [op |-> "none", node |-> NullNode, arg |-> NullNode, flag |-> FALSE]

InitGraph ==
    /\ mChildren = [n \in NodeIds |-> <<>>]
    /\ lastAdd = NoAdd
    /\ lastOp = NoOp
    /\ mIsVisible = [n \in NodeIds |-> TRUE]
    /\ updated = {}
    /\ mParent = [n \in NodeIds |-> NodeWeakRef(NullNode)]
    /\ alive = NodeIds
    /\ held = NodeIds

\* The effect of a change of the strong references on the nodes' lifetimes:
\* the nodes left without an owner are destroyed, their children lists and
\* parent references with them.
Lifetimes(children, handles, parents) ==
    LET rest == Sweep(alive, handles, children, parents)
    IN /\ alive' = rest
       /\ held' = handles
       /\ mChildren' = [n \in NodeIds |-> IF n \in rest THEN children[n] ELSE <<>>]
       /\ mParent' = [n \in NodeIds |->
                        IF n \in rest THEN parents[n] ELSE NodeWeakRef(NullNode)]

\* parent->addChild(node); a new strong reference ends no lifetime.
NodeAddChild(parent, node) ==
    /\ parent \in alive /\ node \in alive
    /\ lastAdd' = [by |-> "addChild",
                   result |-> IF HasChild(mChildren[parent], node)
                              THEN "present" ELSE "added"]
    /\ mChildren' = [mChildren EXCEPT ![parent] = AddChild(@, node)]
    /\ lastOp' = NoOp
    /\ UNCHANGED <<mIsVisible, updated, mParent, alive, held,
                   loadVars, drawVars, rectVars>>

\* parent->removeChild(node)
NodeRemoveChild(parent, node) ==
    /\ parent \in alive /\ node \in alive
    /\ Lifetimes([mChildren EXCEPT ![parent] = RemoveChild(@, node)], held, mParent)
    /\ lastAdd' = NoAdd
    /\ lastOp' = NoOp
    /\ UNCHANGED updated
    /\ UNCHANGED <<mIsVisible, loadVars, drawVars, rectVars>>

\* parent->removeChildren()
NodeRemoveChildren(parent) ==
    /\ parent \in alive
    /\ Lifetimes([mChildren EXCEPT ![parent] = <<>>], held, mParent)
    /\ lastAdd' = NoAdd
    /\ lastOp' = NoOp
    /\ UNCHANGED updated
    /\ UNCHANGED <<mIsVisible, loadVars, drawVars, rectVars>>

\* node->setup() on a NodeGLTF whose property.children is the list given.
NodeSetup(node, propertyChildren) ==
    /\ node \in alive
    /\ LET after == NodeGLTFSetup(mChildren[node], propertyChildren)
       IN /\ lastAdd' = [by |-> "setup",
                          result |->
                            IF propertyChildren = <<>> THEN "none"
                            ELSE IF Len(after) < Len(mChildren[node]) + Len(propertyChildren)
                            THEN "present" ELSE "added"]
          /\ mChildren' = [mChildren EXCEPT ![node] = after]
    /\ lastOp' = NoOp
    /\ UNCHANGED <<mIsVisible, updated, mParent, alive, held,
                   loadVars, drawVars, rectVars>>

\* SceneGLTF::create(modelGLTF, property) with property.nodes the list given.
\* scene is the Node make_shared<SceneGLTF>() yields: a new object, with no
\* children and no parent, that no children list holds; it is none of
\* modelGLTF->nodes, so no index names it.
SceneCreate(scene, propertyNodes) ==
    /\ scene \in alive
    /\ mChildren[scene] = <<>>
    /\ mParent[scene] = NodeWeakRef(NullNode)
    /\ \A q \in NodeIds : ~HasChild(mChildren[q], scene)
    /\ \A k \in 1..Len(propertyNodes) : propertyNodes[k] + 1 # scene
    /\ LET after == SceneGLTFChildren(propertyNodes)
       IN /\ mChildren' = [mChildren EXCEPT ![scene] =
                                         [k \in 1..Len(after) |-> after[k] + 1]]
          /\ lastAdd' = [by |-> "create",
                          result |->
                            IF propertyNodes = <<>> THEN "none"
                            ELSE IF Len(after) < Len(propertyNodes)
                            THEN "present" ELSE "added"]
    /\ lastOp' = NoOp
    /\ UNCHANGED <<mIsVisible, updated, mParent, alive, held, loadVars, drawVars, rectVars>>

\* node->setVisible(visible)
NodeSetVisible(node, visible) ==
    /\ node \in alive
    /\ mIsVisible' = SetVisible(mIsVisible, node, visible)
    /\ lastOp' = [op |-> "setVisible", node |-> node, arg |-> NullNode, flag |-> visible]
    /\ UNCHANGED updated
    /\ UNCHANGED <<mChildren, lastAdd, mParent, alive, held,
                   loadVars, drawVars, rectVars>>

\* node->setParent(parent); parent may be a null NodeRef.
NodeSetParent(node, parent) ==
    /\ node \in alive
    /\ parent \in alive \cup {NullNode}
    /\ Lifetimes(mChildren, held, SetParent(mParent, node, parent))
    /\ lastOp' = [op |-> "setParent", node |-> node, arg |-> parent, flag |-> FALSE]
    /\ UNCHANGED updated
    /\ UNCHANGED <<lastAdd, mIsVisible, loadVars, drawVars, rectVars>>

\* The application lets go of the NodeRef it holds to node.
HandleRelease(node) ==
    /\ node \in held
    /\ Lifetimes(mChildren, held \ {node}, mParent)
    /\ lastOp' = NoOp
    /\ UNCHANGED updated
    /\ UNCHANGED <<lastAdd, mIsVisible, loadVars, drawVars, rectVars>>

---------------------------------------------------------------------------
(* NodeRectangle (src/src/NodeRectangle.cpp) and its mouse handlers.  A     *)
(* position is modelled by one coordinate: the handlers add and subtract    *)
(* vectors componentwise.  A callback member is TRUE when a function has    *)
(* been stored in it.  NodeRectangle.h and Node2D are not part of the       *)
(* sources, so the coordinate conversions and the bounds test follow their   *)
(* names and the comments in the handlers.                                  *)

Coords == 0..MaxCoord

Buttons == {"left", "right"}

MouseEvents == [pos : Coords, button : Buttons]

TouchModes == {"UNTOUCHED", "DRAGGING", "RESIZING"}

Rotations == {0, 90}

Scales == {1, 2}

\* The callbacks the application stores; it stores no drag or move callback.
CallbackNames == {"down", "up"}

\* The screen position of the origin of the parent's coordinate space.
ParentOrigin == 1

\* screenToParent(pt): screen space to the space of the node's parent.
ScreenToParent(pt) == pt - ParentOrigin

\* screenToObject(pt): screen space to the node's own space.
ScreenToObject(r, pt) == ScreenToParent(pt) - r.mPosition

\* getBounds().contains(pt): the rectangle covers the unit cell at its origin.
BoundsContains(pt) == pt = 0

\* NodeRectangle::NodeRectangle(): the constructor sets mTouchMode and
\* mCanvasMode; the snapshot members (mInitialPosition, mInitialRotation,
\* mInitialScale, mInitialMouse, mCurrentMouse) are left as their types'
\* default construction leaves them, the values given here.  The scale of a
\* new node is 1.
NewRectangle(ip, ir, is, im, cm) ==
    [ mTouchMode |-> "UNTOUCHED", mCanvasMode |-> FALSE, mIsSelected |-> FALSE,
      mPosition |-> 0, mRotation |-> 0, mScale |-> 1,
      mInitialPosition |-> ip, mInitialRotation |-> ir, mInitialScale |-> is,
      mInitialMouse |-> im, mCurrentMouse |-> cm,
      mDownCallback |-> FALSE, mUpCallback |-> FALSE,
      mDragCallback |-> FALSE, mMoveCallback |-> FALSE ]

\* What a handler hands back: the node after the call, the value returned and
\* the callbacks invoked, in order.
Handled(r, ret, calls) == [rect |-> r, ret |-> ret, calls |-> calls]

\* bool NodeRectangle::mouseMove(MouseEvent event)
NodeRectangleMouseMove(r, event) ==
    LET pt == ScreenToObject(r, event.pos)
        r1 == [r EXCEPT !.mIsSelected = BoundsContains(pt)]
    IN IF r1.mIsSelected /\ r1.mMoveCallback
       THEN Handled(r1, TRUE, <<"move">>)
       ELSE Handled(r1, FALSE, <<>>)

\* Faulty variant, for comparison: the up callback is invoked whether or not
\* the node is selected.
MouseUpCallbackAlways(r, event) ==
    LET r1 == [r EXCEPT !.mTouchMode = "UNTOUCHED"]
    IN IF r1.mUpCallback
       THEN Handled(r1, ~r1.mCanvasMode, <<"up">>)
       ELSE Handled(r1, FALSE, <<>>)

\* bool NodeRectangle::mouseUp(MouseEvent event)
NodeRectangleMouseUp(r, event) ==
    LET r1 == [r EXCEPT !.mTouchMode = "UNTOUCHED"]
    IN IF r1.mIsSelected /\ r1.mUpCallback
       THEN Handled(r1, ~r1.mCanvasMode, <<"up">>)
       ELSE Handled(r1, FALSE, <<>>)

\* The touch mode mouseDown starts: the test of the button is commented out
\* (lines 167 and 174-175), the assignment of DRAGGING is not.
TouchModeOnDown(event) == "DRAGGING"

\* Faulty variant, for comparison: the offset is taken from the position of
\* the last snapshot, as mouseDrag takes it.
MouseOffsetFromInitial(r, event) == ScreenToParent(event.pos) - r.mInitialPosition

\* screenToParent(event.getPos()) - getPosition()
MouseOffset(r, event) == ScreenToParent(event.pos) - r.mPosition

\* bool NodeRectangle::mouseDown(MouseEvent event)
NodeRectangleMouseDown(r, event) ==
    IF ~r.mIsSelected
    THEN IF r.mCanvasMode /\ r.mTouchMode # "UNTOUCHED"
         THEN LET up == NodeRectangleMouseUp(r, event)
              IN Handled(up.rect, FALSE, up.calls)
         ELSE Handled(r, FALSE, <<>>)
    ELSE LET r1 == [r EXCEPT !.mCurrentMouse = MouseOffset(r, event),
                             !.mInitialMouse = MouseOffset(r, event),
                             !.mInitialPosition = r.mPosition,
                             !.mInitialRotation = r.mRotation,
                             !.mInitialScale = r.mScale,
                             !.mTouchMode = TouchModeOnDown(event)]
         IN Handled(r1, ~r1.mCanvasMode,
                    IF r1.mIsSelected /\ r1.mDownCallback THEN <<"down">> ELSE <<>>)

\* v.length() of a glm::vec2: the number of its components.
VecLength(v) == 2

\* atan2(0, x) in degrees: the angle of a vector along the x axis.
AngleOf(x) == IF x < 0 THEN 180 ELSE 0

\* bool NodeRectangle::mouseDrag(MouseEvent event).  The quotient d1 / d0 of
\* the RESIZING case is kept as the fraction <<numerator, denominator>>.
NodeRectangleMouseDrag(r, event) ==
    LET r1 == [r EXCEPT !.mCurrentMouse = ScreenToParent(event.pos) - r.mInitialPosition]
    IN CASE r1.mTouchMode = "DRAGGING" ->
              Handled([r1 EXCEPT !.mPosition = r1.mInitialPosition
                                     + (r1.mCurrentMouse - r1.mInitialMouse)],
                      TRUE,
                      IF r1.mIsSelected /\ r1.mDragCallback THEN <<"drag">> ELSE <<>>)
         [] r1.mTouchMode = "RESIZING" ->
              Handled([r1 EXCEPT !.mScale = <<r1.mInitialScale * VecLength(r1.mCurrentMouse),
                                              VecLength(r1.mInitialMouse)>>,
                                 !.mRotation = r1.mInitialRotation
                                     + (AngleOf(r1.mCurrentMouse) - AngleOf(r1.mInitialMouse))],
                      TRUE, <<>>)
         [] OTHER -> Handled(r1, FALSE, <<>>)

NoEvent == [pos |-> 0, button |-> "left"]

NoMouse == [op |-> "none", event |-> NoEvent,
            was |-> "UNTOUCHED", ret |-> FALSE, calls |-> <<>>]

\* The node as constructed, its snapshot members zero (the scale snapshot
\* too, which so differs from the node's scale until mouseDown records it).
InitRect ==
    /\ rect = NewRectangle(0, 0, 0, 0, 0)
    /\ lastMouse = NoMouse

\* A handler call: the node becomes what the handler leaves, and the call is
\* recorded with the touch mode it found, its result and its callbacks; the
\* event is kept for mouseDown only.
MouseCall(op, event, h) ==
    /\ rect' = h.rect
    /\ lastMouse' = [op |-> op,
                     event |-> IF op = "mouseDown" THEN event ELSE NoEvent,
                     was |-> rect.mTouchMode, ret |-> h.ret, calls |-> h.calls]
    /\ UNCHANGED <<loadVars, drawVars, graphVars>>

RectMouseMove(event) == MouseCall("mouseMove", event, NodeRectangleMouseMove(rect, event))

RectMouseDown(event) == MouseCall("mouseDown", event, NodeRectangleMouseDown(rect, event))

\* Dragging stops at the edge of the modelled coordinates.
RectMouseDrag(event) ==
    /\ NodeRectangleMouseDrag(rect, event).rect.mPosition \in Coords
    /\ MouseCall("mouseDrag", event, NodeRectangleMouseDrag(rect, event))

RectMouseUp(event) == MouseCall("mouseUp", event, NodeRectangleMouseUp(rect, event))

\* A setter called by the application between two mouse events.
RectSet(r) ==
    /\ rect' = r
    /\ lastMouse' = NoMouse
    /\ UNCHANGED <<loadVars, drawVars, graphVars>>

\* setPosition(pt)
RectSetPosition(pt) == RectSet([rect EXCEPT !.mPosition = pt])

\* setRotation(rot)
RectSetRotation(rot) == RectSet([rect EXCEPT !.mRotation = rot])

\* setScale(scale)
RectSetScale(scale) == RectSet([rect EXCEPT !.mScale = scale])

\* Canvas mode switched on or off.
RectSetCanvasMode(on) == RectSet([rect EXCEPT !.mCanvasMode = on])

\* A callback stored (on) or cleared.
RectSetCallback(name, on) ==
    RectSet(CASE name = "down" -> [rect EXCEPT !.mDownCallback = on]
              [] name = "up"   -> [rect EXCEPT !.mUpCallback = on])

---------------------------------------------------------------------------
(* Specifications. *)

Init == InitLoad /\ InitDraw /\ InitGraph /\ InitRect

\* The loader.
Next == Create \/ Release

Spec == Init /\ [][Next]_vars

\* Drawing primitives.
NextDraw == PrimitiveDraw

SpecDraw == Init /\ [][NextDraw]_vars

\* Building children lists.
NextChildren ==
    \/ \E parent \in NodeIds, node \in NodeIds : NodeAddChild(parent, node)
    \/ \E parent \in NodeIds, node \in NodeIds : NodeRemoveChild(parent, node)
    \/ \E parent \in NodeIds : NodeRemoveChildren(parent)
    \/ \E node \in NodeIds, list \in ChildIndexLists : NodeSetup(node, list)
    \/ \E scene \in NodeIds, list \in ChildIndexLists : SceneCreate(scene, list)

SpecChildren == Init /\ [][NextChildren]_vars

\* Visibility.
NextVisible ==
    \/ \E parent \in NodeIds, node \in NodeIds : NodeAddChild(parent, node)
    \/ \E parent \in NodeIds, node \in NodeIds : NodeRemoveChild(parent, node)
    \/ \E node \in NodeIds, visible \in BOOLEAN : NodeSetVisible(node, visible)

SpecVisible == Init /\ [][NextVisible]_vars

\* Parent links and node lifetimes.
NextParent ==
    \/ \E parent \in NodeIds, node \in NodeIds : NodeAddChild(parent, node)
    \/ \E parent \in NodeIds, node \in NodeIds : NodeRemoveChild(parent, node)
    \/ \E node \in NodeIds, parent \in NodeIds \cup {NullNode} :
         NodeSetParent(node, parent)
    \/ \E node \in NodeIds : HandleRelease(node)

SpecParent == Init /\ [][NextParent]_vars

\* The mouse handlers of a NodeRectangle, and the setters used between events.
NextMouse ==
    \/ \E event \in MouseEvents : RectMouseMove(event)
    \/ \E event \in MouseEvents : RectMouseDown(event)
    \/ \E event \in MouseEvents : RectMouseDrag(event)
    \/ \E event \in MouseEvents : RectMouseUp(event)
    \/ \E pt \in Coords : RectSetPosition(pt)
    \/ \E rot \in Rotations : RectSetRotation(rot)
    \/ \E scale \in Scales : RectSetScale(scale)
    \/ \E on \in BOOLEAN : RectSetCanvasMode(on)
    \/ \E name \in CallbackNames, on \in BOOLEAN : RectSetCallback(name, on)

SpecMouse == Init /\ [][NextMouse]_vars

---------------------------------------------------------------------------
(* Properties of ModelGLTF::create, checked under Spec. *)

\* The parser was called and handed back pr.
Parsed == parsed # <<>>

\* The kinds of the objects create built.
CreatedKinds == {buildLog[k].by : k \in {j \in DOMAIN buildLog : buildLog[j].ev = "create"}}

\* C1: ModelGLTF::create called with a path that does not exist returns an
\* empty reference, never invokes the glTF parser, creates no object and
\* stores nothing through loadingError.
C1_MissingFile ==
    (loadStatus # "idle" /\ ~loadCall.path.exists) =>
        /\ loadStatus = "null"
        /\ modelRef = <<>>
        /\ parseCalls = <<>>
        /\ ~Parsed
        /\ CreatedKinds = {}
        /\ errWrites = <<>>

C1_Witness ==
    loadStatus = "null" /\ ~loadCall.path.exists /\ loadCall.le

\* C2: when the parser reports failure, create returns an empty reference
\* after exactly one parse attempt, having created no object; and on every
\* parse attempt, successful or not, a non-null loadingError receives exactly
\* the parser's error string (the empty string when there was no error).
C2_ParseFailure ==
    /\ (Parsed /\ ~parsed[1].ret) =>
           /\ loadStatus = "null"
           /\ modelRef = <<>>
           /\ Len(parseCalls) = 1
           /\ CreatedKinds = {}
    /\ Parsed => /\ Len(parseCalls) = 1
                 /\ loadCall.le => errWrites = <<parsed[1].err>>
                 /\ ~loadCall.le => errWrites = <<>>

C2_Witness ==
    /\ loadStatus = "null" /\ Parsed /\ ~parsed[1].ret /\ loadCall.le
    /\ errWrites = <<"parse error">>

\* A wrapper wraps an element of the parsed model: it was built from that
\* element (the names tell the elements apart) and holds a copy of it; the
\* copy a sampler wrapper holds may have had its filters filled in.
Wraps(kind, wrapper, element) ==
    /\ wrapper.property.name = element.name
    /\ kind # "samplers" => wrapper.property = element

\* C3: after a successful create with loadAnimationOnly = false and
\* loadTextures = true every wrapper collection is as long as the array of
\* the parsed model it wraps, and its element i wraps element i of that array.
C3_CollectionsMirrorModel ==
    (loadStatus = "returned" /\ ~loadCall.option.loadAnimationOnly
        /\ loadCall.option.loadTextures) =>
        \A kind \in KindSet :
            /\ Len(modelRef[1].coll[kind]) = Len(parsed[1].model[kind])
            /\ \A k \in 1..Len(modelRef[1].coll[kind]) :
                   Wraps(kind, modelRef[1].coll[kind][k], parsed[1].model[kind][k])

C3_Witness ==
    /\ loadStatus = "returned" /\ ~loadCall.option.loadAnimationOnly
    /\ loadCall.option.loadTextures
    /\ \A kind \in KindSet : Len(modelRef[1].coll[kind]) = MaxItems
    /\ \E k \in 1..MaxItems :
           modelRef[1].coll["samplers"][k].property # parsed[1].model["samplers"][k]

\* The (create function, collection) pairs C9 is about.
IndexPairs ==
    { <<"bufferViews", "buffers">>, <<"accessors", "bufferViews">>,
      <<"textures", "images">>, <<"textures", "samplers">>,
      <<"materials", "textures">>, <<"primitives", "accessors">>,
      <<"primitives", "materials">>, <<"nodes", "cameras">>,
      <<"nodes", "meshes">>, <<"nodes", "skins">>, <<"scenes", "nodes">> }

IndexEvents == {k \in DOMAIN buildLog : buildLog[k].ev = "index"}

\* C9: during create, whenever a create function indexes one of the model's
\* wrapper collections, that collection already holds a wrapper for every
\* element of the parsed model's array, and the fallback material exists
\* before the first primitive is created.
C9_IndexedCollectionsComplete ==
    (Parsed /\ parsed[1].ret) =>
        /\ \A k \in IndexEvents :
               <<buildLog[k].by, buildLog[k].into>> \in IndexPairs =>
                   buildLog[k].size = Len(parsed[1].model[buildLog[k].into])
        /\ \A k \in DOMAIN buildLog :
               buildLog[k] = Created("primitives") =>
                   \E j \in 1..(k - 1) : buildLog[j] = Created("fallbackMaterial")

C9_Witness ==
    /\ loadStatus = "returned"
    /\ \A pair \in IndexPairs :
           \E k \in IndexEvents : <<buildLog[k].by, buildLog[k].into>> = pair

\* C10: after a successful create with loadAnimationOnly = false, for every
\* successfully parsed model, the index used to select the current scene is
\* within the bounds of scenes, currentScene is scenes[defaultScene]
\* (scenes[0] when the file declares no default scene), and currentScene is
\* the model node's only child.
C10_CurrentSceneInBounds ==
    (Parsed /\ parsed[1].ret /\ ~loadCall.option.loadAnimationOnly) =>
        /\ \A k \in IndexEvents :
               buildLog[k].by = "ModelGLTF" =>
                   buildLog[k].index >= 0 /\ buildLog[k].index < buildLog[k].size
        /\ loadStatus = "returned"
        /\ modelRef[1].currentScene = <<SceneIndex(parsed[1].model)>>
        /\ InRange(modelRef[1].coll["scenes"], SceneIndex(parsed[1].model))
        /\ modelRef[1].mChildren = modelRef[1].currentScene

---------------------------------------------------------------------------
(* Properties of drawing, checked under SpecDraw. *)

\* C8: for every material and every draw order, when PrimitiveGLTF::draw
\* returns, the GL context's state stacks (GL_CULL_FACE, GL_BLEND, blend
\* function) are as deep as before the call.
C8_StacksBalanced == lastDraw.after = lastDraw.before

---------------------------------------------------------------------------
(* Properties of the scene graph. *)

NoDuplicates(seq) ==
    \A i \in 1..Len(seq), j \in 1..Len(seq) : i # j => seq[i] # seq[j]

\* C4: after any sequence of addChild, removeChild, removeChildren,
\* NodeGLTF::setup (run any number of times) and SceneGLTF::create calls
\* (with child lists that may name an index twice) no children list, of a
\* node or of a scene, holds the same node twice.  Checked under SpecChildren.
C4_NoDuplicateChildren ==
    \A n \in NodeIds : NoDuplicates(mChildren[n])

C4_Witness ==
    /\ lastAdd = [by |-> "setup", result |-> "present"]
    /\ \E n \in NodeIds : Len(mChildren[n]) = MaxNodes

C6_State ==
    /\ \A p \in alive :
           p \in held \/ \E q \in alive : HasChild(mChildren[q], p)
    /\ lastOp.op = "setParent" =>
           GetParent(mParent, alive, lastOp.node) = lastOp.arg
    /\ \A n \in alive :
           /\ mParent[n].node \in alive =>
                  GetParent(mParent, alive, n) = mParent[n].node
           /\ mParent[n].node \notin alive =>
                  GetParent(mParent, alive, n) = NullNode

C6_Frame ==
    (mParent' # mParent /\ alive' = alive) =>
        /\ UNCHANGED <<mChildren, mIsVisible, held>>
        /\ \E n \in NodeIds : \A q \in NodeIds \ {n} : mParent'[q] = mParent[q]

\* C6: setParent(p) stores a weak reference: it keeps p alive no longer than
\* p's owners do, changes nothing but the node's own parent link (p's
\* children included), and getParent() returns p while p is alive and null
\* once p has been destroyed.  Checked under SpecParent.
C6_WeakParent == []C6_State /\ [][C6_Frame]_vars

C6_Witness ==
    \E n \in alive :
        /\ mParent[n].node # NullNode
        /\ mParent[n].node \notin alive
        /\ GetParent(mParent, alive, n) = NullNode

---------------------------------------------------------------------------
(* Properties of the NodeRectangle mouse handlers, checked under SpecMouse. *)

\* The last call was mouseDown and found the node selected (mouseDown does
\* not change mIsSelected).
DownOnSelected == lastMouse.op = "mouseDown" /\ rect.mIsSelected

\* C11: mouseDown on a selected NodeRectangle starts DRAGGING when clicked
\* with the left button and RESIZING when clicked with the right button.
C11_ButtonSelectsMode ==
    DownOnSelected =>
        /\ lastMouse.event.button = "left" => rect.mTouchMode = "DRAGGING"
        /\ lastMouse.event.button = "right" => rect.mTouchMode = "RESIZING"

C12_State ==
    DownOnSelected =>
        /\ rect.mInitialPosition = rect.mPosition
        /\ rect.mInitialRotation = rect.mRotation
        /\ rect.mInitialScale = rect.mScale
        /\ rect.mInitialMouse = ScreenToParent(lastMouse.event.pos) - rect.mPosition
        /\ rect.mCurrentMouse = rect.mInitialMouse
        /\ rect.mTouchMode = "DRAGGING"
        /\ lastMouse.calls = IF rect.mDownCallback THEN <<"down">> ELSE <<>>
        /\ lastMouse.ret = ~rect.mCanvasMode

C12_Step ==
    (lastMouse'.op = "mouseDown" /\ rect.mIsSelected) =>
        rect' = [rect EXCEPT !.mInitialPosition = rect.mPosition,
                             !.mInitialRotation = rect.mRotation,
                             !.mInitialScale = rect.mScale,
                             !.mInitialMouse = rect'.mInitialMouse,
                             !.mCurrentMouse = rect'.mInitialMouse,
                             !.mTouchMode = "DRAGGING"]

\* C12: mouseDown on a selected NodeRectangle records the node's position,
\* rotation and scale as the initial values, sets mInitialMouse and
\* mCurrentMouse to the event position in parent space minus the node
\* position, sets the touch mode to DRAGGING, invokes the down callback
\* exactly once if one is set, returns true when canvas mode is off and false
\* when it is on, and changes nothing else of the node.
C12_MouseDownSelected == []C12_State /\ [][C12_Step]_vars

C12_Witness ==
    /\ DownOnSelected
    /\ lastMouse.calls = <<"down">>
    /\ rect.mCanvasMode /\ ~lastMouse.ret
    /\ rect.mInitialRotation = 90
    /\ rect.mInitialPosition # 0

\* The last call was mouseDown and found the node not selected.
DownOnUnselected == lastMouse.op = "mouseDown" /\ ~rect.mIsSelected

C13_State ==
    DownOnUnselected =>
        /\ lastMouse.ret = FALSE
        /\ lastMouse.calls = <<>>
        /\ rect.mTouchMode =
               IF rect.mCanvasMode /\ lastMouse.was # "UNTOUCHED"
               THEN "UNTOUCHED" ELSE lastMouse.was

C13_Step ==
    (lastMouse'.op = "mouseDown" /\ ~rect.mIsSelected) =>
        rect' = IF rect.mCanvasMode /\ rect.mTouchMode # "UNTOUCHED"
                THEN [rect EXCEPT !.mTouchMode = "UNTOUCHED"]
                ELSE rect

\* C13: mouseDown on a NodeRectangle that is not selected returns false,
\* invokes neither the down nor the up callback, and leaves position, initial
\* snapshot and touch mode unchanged, except that in canvas mode a node whose
\* touch mode is not UNTOUCHED is released (its touch mode becomes UNTOUCHED).
C13_MouseDownUnselected == []C13_State /\ [][C13_Step]_vars

C13_Witness ==
    /\ DownOnUnselected
    /\ rect.mCanvasMode
    /\ lastMouse.was = "DRAGGING"
    /\ rect.mTouchMode = "UNTOUCHED"
    /\ rect.mUpCallback /\ rect.mDownCallback

====
